---------------------------- MODULE Spec2Model ----------------------------
(***************************************************************************)
(* A model of main.py: the evidence-package generator.                     *)
(*                                                                         *)
(* Python values are modelled as follows.                                  *)
(*   - a dict is a record; a missing key is a field outside DOMAIN;        *)
(*   - None is the empty tuple and a present optional value v is <<v>>;    *)
(*   - a string built by an f-string is the tuple of its fragments;        *)
(*   - a file's content is a sequence of bytes, an unreadable or missing   *)
(*     file is the value Unreadable.                                       *)
(* The network is the variable net: what each endpoint answers.            *)
(***************************************************************************)
EXTENDS Integers, Sequences, FiniteSets, TLC

VARIABLES
    requests_ok,   \* FALSE when "import requests" failed (requests = None)
    net,           \* the answers of the endpoints: time chain, quotes, pages
    fs,            \* the operator's files: path -> content or Unreadable
    clock,         \* datetime.now(), in ticks
    photo_path,    \* self.photo_path
    state,         \* self.state
    stock_entries, \* the text of self.stock_entries, one per entry widget
    publish_text,  \* the lines of self.publish_text
    pkgdirs,       \* the package directories that exist under OUTPUT_DIR
    evidence,      \* package directory -> content of its evidence.json
    copies,        \* package directory -> the photo copied into it
    reports,       \* package directories holding a rendered report.html
    last_op,       \* the handler that ran last and how it ended
    io_log         \* the requests and file operations of that handler

vars == <<requests_ok, net, fs, clock, photo_path, state, stock_entries,
          publish_text, pkgdirs, evidence, copies, reports, last_op, io_log>>

(***************************************************************************)
(* Bounds of the model.                                                    *)
(***************************************************************************)
\* ticks of the clock the model explores
MaxClock == 3
\* clock ticks per second of wall time (the directory name has second granularity)
TicksPerSec == 2
\* lines the operator types into the publish-URL box
MaxLines == 2
\* entry widgets for stock symbols (the spinbox allows 1 to 10)
NumEntries == 2
\* characters of a file name given to safe_filename
MaxName == 3

None == <<>>
Some(v) == <<v>>
IsNone(o) == o = <<>>
Unreadable == <<-1>>

\* the contents a photo file takes: two that differ in one byte, a longer one
Contents == { <<1, 2>>, <<1, 3>> }

(***************************************************************************)
(* sha256_file: folds the file, chunk after chunk, into a running digest.  *)
(* The digest is modelled by a positional fold that is collision-free on   *)
(* the bounded contents, as SHA-256 is taken to be.                        *)
(***************************************************************************)
RECURSIVE sha256_update(_, _)
sha256_update(h, bytes) ==
    IF bytes = <<>> THEN h
    ELSE sha256_update(h * 31 + Head(bytes) + 1, Tail(bytes))

sha256_file(content) == <<"sha256", sha256_update(7, content)>>

(***************************************************************************)
(* HTTP answers.  An answer is either an exception raised by the call      *)
(* (connection error, timeout) or a response with a status code and an     *)
(* optional Date header.  A Date header is "now" (the server's clock, well *)
(* formed) or "garbled" (present, not parseable).                          *)
(***************************************************************************)
Raise(e) == [exc |-> e]
Resp(st, d) == [status |-> st, date |-> d]
Raised(r) == "exc" \in DOMAIN r

\* the text of a Date header the server sends at tick t
HttpDate(d, t) ==
    IF d = "now" THEN [fmt |-> "rfc1123", sec |-> t \div TicksPerSec] ELSE [fmt |-> "garbled"]
\* parsedate_to_datetime
DateParses(hdr) == hdr.fmt # "garbled"
\* d.astimezone(timezone.utc).isoformat()
IsoOf(hdr) == [fmt |-> "iso", sec |-> hdr.sec]
\* int(d.timestamp())
TsOf(hdr) == hdr.sec

\* r.headers.get("Date") or r.headers.get("date")
DateHeader(r, t) == IF r.date = "none" THEN None ELSE Some(HttpDate(r.date, t))

(***************************************************************************)
(* fetch_world_time                                                        *)
(***************************************************************************)
sources == <<
    [url |-> "https://worldtimeapi.org/api/timezone/Etc/UTC", tag |-> "json_wta", kind |-> "json_wta"],
    [url |-> "https://timeapi.io/api/Time/current/zone?timeZone=UTC", tag |-> "json_timeapi", kind |-> "json_timeapi"],
    [url |-> "https://www.google.com", tag |-> "http_date_google", kind |-> "http_date"],
    [url |-> "https://www.microsoft.com", tag |-> "http_date_ms", kind |-> "http_date"],
    [url |-> "https://www.baidu.com", tag |-> "http_date_baidu", kind |-> "http_date"] >>

\* One pass of the loop body for a JSON source.  The answer ans.get is an
\* exception, or a response whose body is "time" (the expected shape),
\* "nofield" (JSON without the time field) or "notjson".
\* Outcome: "return" with the dict, "raise" with the message, or "next"
\* (the body ends without return and without exception).
TryJson(src, ans, t) ==
    LET reqs == << <<"GET", src.url>> >>
        r == ans.get
    IN  IF Raised(r) THEN [kind |-> "raise", msg |-> r.exc, reqs |-> reqs]
        ELSE IF r.status >= 400
            THEN [kind |-> "raise", msg |-> "HTTPError", reqs |-> reqs]
        ELSE IF r.body = "notjson"
            THEN [kind |-> "raise", msg |-> "JSONDecodeError", reqs |-> reqs]
        ELSE IF r.body = "time"
            THEN [kind |-> "return", reqs |-> reqs,
                  value |-> [source |-> <<src.url>>,
                             utc_datetime |-> [fmt |-> "iso", sec |-> t \div TicksPerSec],
                             unixtime |-> Some(t \div TicksPerSec)]]
        ELSE [kind |-> "next", reqs |-> reqs]

\* r.status_code >= 400 or no Date header: the HEAD answer is not enough
HeadInsufficient(r) == r.status >= 400 \/ r.date = "none"

\* One pass of the loop body for a header-derived source.
TryHttpDate(src, ans, t) ==
    LET h == ans.head
        g == ans.get
        headreq == << <<"HEAD", src.url>> >>
        bothreq == << <<"HEAD", src.url>>, <<"GET", src.url>> >>
    IN  IF Raised(h) THEN [kind |-> "raise", msg |-> h.exc, reqs |-> headreq]
        ELSE LET needGet == HeadInsufficient(h)
                 reqs == IF needGet THEN bothreq ELSE headreq
             IN  IF needGet /\ Raised(g)
                 THEN [kind |-> "raise", msg |-> g.exc, reqs |-> reqs]
                 ELSE LET r == IF needGet THEN g ELSE h
                          date_hdr == DateHeader(r, t)
                      IN  IF IsNone(date_hdr) THEN [kind |-> "next", reqs |-> reqs]
                          ELSE IF DateParses(date_hdr[1])
                          THEN [kind |-> "return", reqs |-> reqs,
                                value |-> [source |-> <<src.url, " (HTTP Date)">>,
                                           utc_datetime |-> IsoOf(date_hdr[1]),
                                           unixtime |-> Some(TsOf(date_hdr[1]))]]
                          ELSE [kind |-> "return", reqs |-> reqs,
                                value |-> [source |-> <<src.url, " (HTTP Date)">>,
                                           utc_datetime |-> date_hdr[1]]]

TrySource(src, ans, t) ==
    IF src.kind = "http_date" THEN TryHttpDate(src, ans, t) ELSE TryJson(src, ans, t)

\* a loop that does not stop at the first success: the last source that
\* answers wins
RECURSIVE TimeLoop_last_wins(_, _, _, _, _)
TimeLoop_last_wins(k, answers, t, errors, reqs) ==
    IF k > Len(sources)
    THEN [value |-> [error |-> "time_fetch_failed", details |-> errors], reqs |-> reqs]
    ELSE LET o == TrySource(sources[k], answers[k], t)
             rest == TimeLoop_last_wins(k + 1, answers, t,
                        IF o.kind = "raise"
                        THEN Append(errors, <<sources[k].tag, ": ", o.msg>>) ELSE errors,
                        reqs \o o.reqs)
         IN  IF o.kind = "return" /\ "error" \in DOMAIN rest.value
             THEN [value |-> o.value, reqs |-> rest.reqs]
             ELSE rest

\* the for loop over sources, from source k on, with the errors and the
\* requests collected so far
RECURSIVE TimeLoop(_, _, _, _, _)
TimeLoop(k, answers, t, errors, reqs) ==
    IF k > Len(sources)
    THEN [value |-> [error |-> "time_fetch_failed", details |-> errors], reqs |-> reqs]
    ELSE LET o == TrySource(sources[k], answers[k], t)
         IN  IF o.kind = "return" THEN [value |-> o.value, reqs |-> reqs \o o.reqs]
             ELSE IF o.kind = "raise"
             THEN TimeLoop(k + 1, answers, t,
                           Append(errors, <<sources[k].tag, ": ", o.msg>>), reqs \o o.reqs)
             ELSE TimeLoop(k + 1, answers, t, errors, reqs \o o.reqs)

fetch_world_time(answers, t) ==
    IF ~requests_ok
    THEN [value |-> [error |-> "requests_not_installed"], reqs |-> <<>>]
    ELSE TimeLoop(1, answers, t, <<>>, <<>>)


(***************************************************************************)
(* Text.  A text is a sequence of one-character strings.                   *)
(***************************************************************************)
Whitespace == {" "}
AlnumChars == {"a", "b", "j", "p", "u", "v", "A", "B", "1"}
LowerOf(c) == IF c = "A" THEN "a" ELSE IF c = "B" THEN "b" ELSE c
UpperOf(c) == IF c \in {"a", "b", "j", "p", "u", "v"}
              THEN (CASE c = "a" -> "A" [] c = "b" -> "B" [] c = "j" -> "J"
                      [] c = "p" -> "P" [] c = "u" -> "U" [] c = "v" -> "V")
              ELSE c

RECURSIVE lstrip(_)
lstrip(s) == IF s # <<>> /\ Head(s) \in Whitespace THEN lstrip(Tail(s)) ELSE s
RECURSIVE rstrip(_)
rstrip(s) == IF s # <<>> /\ s[Len(s)] \in Whitespace
             THEN rstrip(SubSeq(s, 1, Len(s) - 1)) ELSE s
\* str.strip()
strip(s) == rstrip(lstrip(s))
\* str.lower(), str.upper()
lower(s) == [i \in 1..Len(s) |-> LowerOf(s[i])]
upper(s) == [i \in 1..Len(s) |-> UpperOf(s[i])]

\* os.path.basename: what follows the last separator
RECURSIVE basename(_)
basename(path) ==
    IF \E i \in 1..Len(path) : path[i] = "/" THEN basename(Tail(path)) ELSE path

\* a filter that puts an underscore where it drops a character
RECURSIVE KeepSafe_substitute(_)
KeepSafe_substitute(name) ==
    IF name = <<>> THEN <<>>
    ELSE IF Head(name) \in AlnumChars \/ Head(name) \in {"-", "_", "."}
         THEN <<Head(name)>> \o KeepSafe_substitute(Tail(name))
         ELSE <<"_">> \o KeepSafe_substitute(Tail(name))

\* "".join(c for c in name if c.isalnum() or c in ("-", "_", ".")).strip()
RECURSIVE KeepSafe(_)
KeepSafe(name) ==
    IF name = <<>> THEN <<>>
    ELSE IF Head(name) \in AlnumChars \/ Head(name) \in {"-", "_", "."}
         THEN <<Head(name)>> \o KeepSafe(Tail(name))
         ELSE KeepSafe(Tail(name))

safe_filename(name) == strip(KeepSafe(name))

(***************************************************************************)
(* fetch_stock_quote                                                       *)
(***************************************************************************)
\* the request URL: the stooq prefix, quote(sym), the query suffix
StooqUrl(sym) == <<"https://stooq.com/q/l/?s=", sym, "&f=sd2t2ohlcv&h&e=csv">>

\* a fetch that does not count the lines of the answer: a short body ends in
\* the except branch
fetch_stock_quote_unchecked(symbol, answers) ==
    IF ~requests_ok THEN [value |-> [error |-> "requests_not_installed"], reqs |-> <<>>]
    ELSE LET sym == lower(strip(symbol))
             url == StooqUrl(sym)
             reqs == << <<"GET", url>> >>
         IN  IF sym = <<>> THEN [value |-> [error |-> "empty_symbol"], reqs |-> <<>>]
             ELSE LET r == answers[sym]
                  IN  IF Raised(r)
                      THEN [value |-> [error |-> <<"fetch_failed: ", r.exc>>, source |-> url],
                            reqs |-> reqs]
                      ELSE IF r.status >= 400
                      THEN [value |-> [error |-> <<"fetch_failed: ", "HTTPError">>, source |-> url],
                            reqs |-> reqs]
                      ELSE IF r.lines < 2
                      THEN [value |-> [error |-> <<"fetch_failed: ", "IndexError">>, source |-> url],
                            reqs |-> reqs]
                      ELSE [value |-> [symbol |-> sym, close |-> r.close, source |-> url],
                            reqs |-> reqs]

\* answers: the answer of the endpoint for each (lower-cased) symbol; an
\* answer is an exception or a response with a status and the number of
\* lines of its CSV body
fetch_stock_quote(symbol, answers) ==
    IF ~requests_ok THEN [value |-> [error |-> "requests_not_installed"], reqs |-> <<>>]
    ELSE LET sym == lower(strip(symbol))
             url == StooqUrl(sym)
             reqs == << <<"GET", url>> >>
         IN  IF sym = <<>> THEN [value |-> [error |-> "empty_symbol"], reqs |-> <<>>]
             ELSE LET r == answers[sym]
                  IN  IF Raised(r)
                      THEN [value |-> [error |-> <<"fetch_failed: ", r.exc>>, source |-> url],
                            reqs |-> reqs]
                      ELSE IF r.status >= 400
                      THEN [value |-> [error |-> <<"fetch_failed: ", "HTTPError">>, source |-> url],
                            reqs |-> reqs]
                      ELSE IF r.lines < 2
                      THEN [value |-> [error |-> <<"malformed_response">>, source |-> url],
                            reqs |-> reqs]
                      ELSE [value |-> [symbol |-> sym, close |-> r.close, source |-> url],
                            reqs |-> reqs]

(***************************************************************************)
(* EvidenceApp._collect_publish_urls                                       *)
(***************************************************************************)
\* [line.strip() for line in text.splitlines() if line.strip()]
RECURSIVE StripLines(_)
StripLines(lines) ==
    IF lines = <<>> THEN <<>>
    ELSE IF strip(Head(lines)) # <<>>
         THEN <<strip(Head(lines))>> \o StripLines(Tail(lines))
         ELSE StripLines(Tail(lines))

collect_publish_urls(text) == StripLines(text)

(***************************************************************************)
(* The publish verifier of generate_report                                 *)
(***************************************************************************)
\* getattr(r, 'url', u): the URL after redirects
FinalUrl(u, r) == IF r.moved THEN u \o <<"/">> ELSE u

\* a probe that sends the GET whatever the HEAD answered
ProbeUrl_always_get(u, ans, t) ==
    LET g == ans.get
        reqs == << <<"HEAD", u>>, <<"GET", u>> >>
    IN  IF Raised(g)
        THEN [info |-> [url |-> u, error |-> g.exc], reqs |-> reqs]
        ELSE [info |-> [url |-> u,
                        status_code |-> Some(g.status),
                        final_url |-> FinalUrl(u, g),
                        http_date |-> DateHeader(g, t),
                        content_type |-> g.ctype,
                        content_length |-> g.clen],
              reqs |-> reqs]

\* One pass of "for u in urls": HEAD, then GET when HEAD raised, returned an
\* error status or carried no Date; an exception of the GET is caught by the
\* outer try and becomes the entry's error.
ProbeUrl(u, ans, t) ==
    LET h == ans.head
        g == ans.get
        needGet == Raised(h) \/ HeadInsufficient(h)
        reqs == IF needGet THEN << <<"HEAD", u>>, <<"GET", u>> >> ELSE << <<"HEAD", u>> >>
    IN  IF needGet /\ Raised(g)
        THEN [info |-> [url |-> u, error |-> g.exc], reqs |-> reqs]
        ELSE LET r == IF needGet THEN g ELSE h
             IN  [info |-> [url |-> u,
                            status_code |-> Some(r.status),
                            final_url |-> FinalUrl(u, r),
                            http_date |-> DateHeader(r, t),
                            content_type |-> r.ctype,
                            content_length |-> r.clen],
                  reqs |-> reqs]

\* a loop whose first exception ends the probing: the try around the loop
RECURSIVE ProbeLoop_abort(_, _, _)
ProbeLoop_abort(urls, answers, t) ==
    IF urls = <<>> THEN [checks |-> <<>>, reqs |-> <<>>]
    ELSE LET one == ProbeUrl(Head(urls), answers[Head(urls)], t)
             rest == IF "error" \in DOMAIN one.info THEN [checks |-> <<>>, reqs |-> <<>>]
                     ELSE ProbeLoop_abort(Tail(urls), answers, t)
         IN  [checks |-> <<one.info>> \o rest.checks, reqs |-> one.reqs \o rest.reqs]

\* a loop that inserts each entry at the front of the list
RECURSIVE ProbeLoop_prepend(_, _, _)
ProbeLoop_prepend(urls, answers, t) ==
    IF urls = <<>> THEN [checks |-> <<>>, reqs |-> <<>>]
    ELSE LET one == ProbeUrl(Head(urls), answers[Head(urls)], t)
             rest == ProbeLoop_prepend(Tail(urls), answers, t)
         IN  [checks |-> rest.checks \o <<one.info>>, reqs |-> one.reqs \o rest.reqs]

RECURSIVE ProbeLoop(_, _, _)
ProbeLoop(urls, answers, t) ==
    IF urls = <<>> THEN [checks |-> <<>>, reqs |-> <<>>]
    ELSE LET one == ProbeUrl(Head(urls), answers[Head(urls)], t)
             rest == ProbeLoop(Tail(urls), answers, t)
         IN  [checks |-> <<one.info>> \o rest.checks, reqs |-> one.reqs \o rest.reqs]

\* a verifier that looks for the HTTP library before it looks at the list
publish_checks_library_first(urls, answers, t) ==
    IF ~requests_ok
    THEN [checks |-> << [error |-> "requests_not_installed"] >>, reqs |-> <<>>]
    ELSE ProbeLoop(urls, answers, t)

\* verification["publish_checks"]
publish_checks(urls, answers, t) ==
    IF urls = <<>> THEN [checks |-> <<>>, reqs |-> <<>>]
    ELSE IF ~requests_ok
    THEN [checks |-> << [error |-> "requests_not_installed"] >>, reqs |-> <<>>]
    ELSE ProbeLoop(urls, answers, t)

(***************************************************************************)
(* The local hash recomputation of generate_report                         *)
(***************************************************************************)
\* os.path.isfile(copied), in the package directories as they are in files
isfile(files, dst) ==
    dst.dir \in DOMAIN files /\ dst.name \in DOMAIN files[dst.dir]

\* a verification that adopts the recomputed hash as the expected one
hash_check_autocorrect(copied, files, expected) ==
    IF ~IsNone(copied) /\ isfile(files, copied[1])
    THEN LET content == files[copied[1].dir][copied[1].name]
         IN  [hc |-> [recomputed_sha256 |-> sha256_file(content),
                      expected_sha256 |-> Some(sha256_file(content)),
                      match |-> TRUE],
              reqs |-> << <<"sha256_file", "copy", copied[1]>> >>]
    ELSE [hc |-> [error |-> "copy_missing"], reqs |-> <<>>]

\* a verification that hashes the copy without looking whether it exists
hash_check_unguarded(copied, files, expected) ==
    IF ~IsNone(copied) /\ isfile(files, copied[1])
    THEN LET content == files[copied[1].dir][copied[1].name]
         IN  [hc |-> [recomputed_sha256 |-> sha256_file(content),
                      expected_sha256 |-> expected,
                      match |-> (Some(sha256_file(content)) = expected)],
              reqs |-> << <<"sha256_file", "copy", copied[1]>> >>]
    ELSE [hc |-> [error |-> "recompute_failed"],
          reqs |-> << <<"sha256_file", "copy", copied>> >>]

\* verification["hash_check"]: copied is the value _copy_photo returned
hash_check(copied, files, expected) ==
    IF ~IsNone(copied) /\ isfile(files, copied[1])
    THEN LET content == files[copied[1].dir][copied[1].name]
         IN  IF content = Unreadable
             THEN [hc |-> [error |-> "recompute_failed"],
                   reqs |-> << <<"sha256_file", "copy", copied[1]>> >>]
             ELSE [hc |-> [recomputed_sha256 |-> sha256_file(content),
                           expected_sha256 |-> expected,
                           match |-> (Some(sha256_file(content)) = expected)],
                   reqs |-> << <<"sha256_file", "copy", copied[1]>> >>]
    ELSE [hc |-> [error |-> "copy_missing"], reqs |-> <<>>]

(***************************************************************************)
(* The handlers of EvidenceApp                                             *)
(***************************************************************************)
Ended(op, how) == [op |-> op, end |-> how]

\* EvidenceApp.__init__
InitialState == [hash |-> None, exif |-> None, world_time |-> None,
                 stocks |-> <<>>, publish_urls |-> <<>>, created_at |-> None]

\* path is what the file dialog returned: the empty text when cancelled
choose_photo(path) ==
    /\ IF path = <<>>
       THEN /\ last_op' = Ended("choose_photo", "cancelled")
            /\ UNCHANGED photo_path
       ELSE /\ photo_path' = Some(path)
            /\ last_op' = Ended("choose_photo", "ok")
    /\ io_log' = <<>>
    /\ UNCHANGED <<requests_ok, net, fs, clock, state, stock_entries, publish_text,
                   pkgdirs, evidence, copies, reports>>

do_hash ==
    /\ IF IsNone(photo_path)
       THEN /\ last_op' = Ended("do_hash", "warning")
            /\ io_log' = <<>>
            /\ UNCHANGED state
       ELSE /\ io_log' = << <<"sha256_file", "original", photo_path[1]>> >>
            /\ IF fs[photo_path[1]] = Unreadable
               THEN /\ last_op' = Ended("do_hash", "exception")
                    /\ UNCHANGED state
               ELSE /\ state' = [state EXCEPT !.hash = Some(sha256_file(fs[photo_path[1]]))]
                    /\ last_op' = Ended("do_hash", "ok")
    /\ UNCHANGED <<requests_ok, net, fs, clock, photo_path, stock_entries, publish_text,
                   pkgdirs, evidence, copies, reports>>

\* read_exif never raises: an unreadable file gives an error dict
read_exif(content) ==
    IF content = Unreadable THEN [error |-> "exif_failed"]
    ELSE [DateTimeOriginal |-> content]

do_exif ==
    /\ IF IsNone(photo_path)
       THEN /\ last_op' = Ended("do_exif", "warning")
            /\ io_log' = <<>>
            /\ UNCHANGED state
       ELSE /\ io_log' = << <<"read_exif", photo_path[1]>> >>
            /\ state' = [state EXCEPT !.exif = Some(read_exif(fs[photo_path[1]]))]
            /\ last_op' = Ended("do_exif", "ok")
    /\ UNCHANGED <<requests_ok, net, fs, clock, photo_path, stock_entries, publish_text,
                   pkgdirs, evidence, copies, reports>>

do_time ==
    /\ LET data == fetch_world_time(net.time, clock)
       IN  /\ state' = [state EXCEPT !.world_time = Some(data.value)]
           /\ io_log' = data.reqs
    /\ last_op' = Ended("do_time", "ok")
    /\ UNCHANGED <<requests_ok, net, fs, clock, photo_path, stock_entries, publish_text,
                   pkgdirs, evidence, copies, reports>>

\* a loop that gives up at the first symbol that fails
RECURSIVE StocksLoop_abort(_, _, _)
StocksLoop_abort(entries, i, answers) ==
    IF i > Len(entries) THEN [stocks_data |-> <<>>, errors |-> <<>>, reqs |-> <<>>]
    ELSE LET symbol == strip(entries[i])
         IN  IF symbol = <<>> THEN StocksLoop_abort(entries, i + 1, answers)
             ELSE LET got == fetch_stock_quote(symbol, answers)
                      data == [k \in DOMAIN got.value \cup {"symbol"} |->
                                  IF k = "symbol" THEN upper(symbol) ELSE got.value[k]]
                  IN  IF "error" \in DOMAIN data
                      THEN [stocks_data |-> <<>>,
                            errors |-> << <<symbol, ": ", data.error>> >>,
                            reqs |-> got.reqs]
                      ELSE LET rest == StocksLoop_abort(entries, i + 1, answers)
                           IN  [stocks_data |-> <<data>> \o rest.stocks_data,
                                errors |-> rest.errors,
                                reqs |-> got.reqs \o rest.reqs]

\* the loop of do_stocks over the entries from entry i on
RECURSIVE StocksLoop(_, _, _)
StocksLoop(entries, i, answers) ==
    IF i > Len(entries) THEN [stocks_data |-> <<>>, errors |-> <<>>, reqs |-> <<>>]
    ELSE LET symbol == strip(entries[i])
             rest == StocksLoop(entries, i + 1, answers)
         IN  IF symbol = <<>> THEN rest
             ELSE LET got == fetch_stock_quote(symbol, answers)
                      data == [k \in DOMAIN got.value \cup {"symbol"} |->
                                  IF k = "symbol" THEN upper(symbol) ELSE got.value[k]]
                  IN  IF "error" \in DOMAIN data
                      THEN [stocks_data |-> rest.stocks_data,
                            errors |-> << <<symbol, ": ", data.error>> >> \o rest.errors,
                            reqs |-> got.reqs \o rest.reqs]
                      ELSE [stocks_data |-> <<data>> \o rest.stocks_data,
                            errors |-> rest.errors,
                            reqs |-> got.reqs \o rest.reqs]

\* a do_stocks that adds the new quotes to those it already holds
do_stocks_append ==
    /\ IF stock_entries = <<>>
       THEN /\ last_op' = Ended("do_stocks", "warning")
            /\ io_log' = <<>>
            /\ UNCHANGED state
       ELSE LET res == StocksLoop(stock_entries, 1, net.quote)
            IN  /\ state' = [state EXCEPT !.stocks = @ \o res.stocks_data]
                /\ io_log' = res.reqs \o
                      (IF res.errors # <<>> THEN << <<"log_failed", res.errors>> >> ELSE <<>>)
                /\ last_op' = Ended("do_stocks", "ok")
    /\ UNCHANGED <<requests_ok, net, fs, clock, photo_path, stock_entries, publish_text,
                   pkgdirs, evidence, copies, reports>>

do_stocks ==
    /\ IF stock_entries = <<>>
       THEN /\ last_op' = Ended("do_stocks", "warning")
            /\ io_log' = <<>>
            /\ UNCHANGED state
       ELSE LET res == StocksLoop(stock_entries, 1, net.quote)
            IN  /\ state' = [state EXCEPT !.stocks = res.stocks_data]
                /\ io_log' = res.reqs \o
                      (IF res.errors # <<>> THEN << <<"log_failed", res.errors>> >> ELSE <<>>)
                /\ last_op' = Ended("do_stocks", "ok")
    /\ UNCHANGED <<requests_ok, net, fs, clock, photo_path, stock_entries, publish_text,
                   pkgdirs, evidence, copies, reports>>

clear_stocks ==
    /\ state' = [state EXCEPT !.stocks = <<>>]
    /\ io_log' = <<>>
    /\ last_op' = Ended("clear_stocks", "ok")
    /\ UNCHANGED <<requests_ok, net, fs, clock, photo_path, stock_entries, publish_text,
                   pkgdirs, evidence, copies, reports>>

(***************************************************************************)
(* EvidenceApp.generate_report                                             *)
(***************************************************************************)
EmptyFn == [x \in {} |-> x]

\* _make_package_dir: the directory is named after the second of t
PackageDir(t) == t \div TicksPerSec

\* _copy_photo: the destination, and whether shutil.copy2 succeeds; disk_ok
\* is FALSE when the package directory cannot be written
CopyDst(path, dir) == [dir |-> dir, name |-> safe_filename(basename(path))]
CopySucceeds(path, disk_ok) == fs[path] # Unreadable /\ disk_ok

\* the files of the package directories after copy2 wrote content to dst
WithCopy(files, dst, content) ==
    LET old == IF dst.dir \in DOMAIN files THEN files[dst.dir] ELSE EmptyFn
    IN  (dst.dir :> ((dst.name :> content) @@ old)) @@ files

\* the dict meta as built before the verification
Meta(path, copied, st) ==
    [photo_original_path |-> path,
     photo_copied_path |-> copied,
     sha256 |-> st.hash,
     exif |-> st.exif,
     world_time |-> st.world_time,
     stocks |-> st.stocks,
     stock |-> IF st.stocks # <<>> THEN Some(st.stocks[1]) ELSE None,
     publish_urls |-> st.publish_urls,
     created_at |-> st.created_at,
     app |-> "APP_TITLE",
     version |-> "1.0.0"]

\* generate_report with two departures from the code: copy_fatal lets a
\* failed copy end the handler; render_first renders the reports before it
\* writes evidence.json
generate_report_variant(disk_ok, d, copy_fatal, render_first) ==
    IF IsNone(photo_path)
    THEN /\ last_op' = Ended("generate_report", "warning")
         /\ io_log' = <<>>
         /\ UNCHANGED <<requests_ok, net, fs, clock, photo_path, state, stock_entries,
                        publish_text, pkgdirs, evidence, copies, reports>>
    ELSE IF IsNone(state.hash) /\ fs[photo_path[1]] = Unreadable
    THEN \* do_hash raises: the handler ends here
         /\ last_op' = Ended("generate_report", "exception")
         /\ io_log' = << <<"sha256_file", "original", photo_path[1]>> >>
         /\ UNCHANGED <<requests_ok, net, fs, clock, photo_path, state, stock_entries,
                        publish_text, pkgdirs, evidence, copies, reports>>
    ELSE
      LET path == photo_path[1]
          hashed == IsNone(state.hash)
          timed == IsNone(state.world_time)
          wt == fetch_world_time(net.time, clock)
          urls == collect_publish_urls(publish_text)
          st == [state EXCEPT
                   !.hash = IF hashed THEN Some(sha256_file(fs[path])) ELSE @,
                   !.world_time = IF timed THEN Some(wt.value) ELSE @,
                   !.publish_urls = urls,
                   !.created_at = Some(clock)]
          pkg == PackageDir(clock + d)
          dst == CopyDst(path, pkg)
          copy_ok == CopySucceeds(path, disk_ok)
          copied == IF copy_ok THEN Some(dst) ELSE None
          files == IF copy_ok THEN WithCopy(copies, dst, fs[path]) ELSE copies
          meta == Meta(path, copied, st)
          hc == hash_check(copied, files, meta.sha256)
          pc == publish_checks(meta.publish_urls, net.page, clock + d)
          verification == [hash_check |-> hc.hc, publish_checks |-> pc.checks]
          full == [k \in DOMAIN meta \cup {"verification"} |->
                     IF k = "verification" THEN verification ELSE meta[k]]
          before == (IF hashed THEN << <<"sha256_file", "original", path>> >> ELSE <<>>)
                    \o (IF timed THEN wt.reqs ELSE <<>>)
                    \o << <<"makedirs", pkg>>, <<"copy2", path, copied>> >>
          record == << <<"write", pkg, "evidence.json">> >>
          render == << <<"write", pkg, "report.html">>, <<"write", pkg, "report.md">> >>
      IN  /\ clock + d + 1 <= MaxClock
          /\ state' = st
          /\ clock' = clock + d + 1
          /\ pkgdirs' = pkgdirs \cup {pkg}
          /\ IF copy_fatal /\ ~copy_ok
             THEN /\ last_op' = Ended("generate_report", "exception")
                  /\ io_log' = before
                  /\ UNCHANGED <<copies, evidence, reports>>
             ELSE /\ copies' = files
                  /\ evidence' = (pkg :> full) @@ evidence
                  /\ reports' = reports \cup {pkg}
                  /\ last_op' = Ended("generate_report", "ok")
                  /\ io_log' = before \o hc.reqs \o pc.reqs
                               \o (IF render_first THEN render \o record
                                   ELSE record \o render)
          /\ UNCHANGED <<requests_ok, net, fs, photo_path, stock_entries, publish_text>>

\* a run that a failed copy ends
generate_report_copy_fatal(disk_ok, d) == generate_report_variant(disk_ok, d, TRUE, FALSE)

\* a run that renders before it records
generate_report_render_first(disk_ok, d) == generate_report_variant(disk_ok, d, FALSE, TRUE)

\* disk_ok: whether the copy can be written; d: the ticks that pass between
\* the two readings of the clock (created_at and the directory name)
generate_report(disk_ok, d) ==
    IF IsNone(photo_path)
    THEN /\ last_op' = Ended("generate_report", "warning")
         /\ io_log' = <<>>
         /\ UNCHANGED <<requests_ok, net, fs, clock, photo_path, state, stock_entries,
                        publish_text, pkgdirs, evidence, copies, reports>>
    ELSE IF IsNone(state.hash) /\ fs[photo_path[1]] = Unreadable
    THEN \* do_hash raises: the handler ends here
         /\ last_op' = Ended("generate_report", "exception")
         /\ io_log' = << <<"sha256_file", "original", photo_path[1]>> >>
         /\ UNCHANGED <<requests_ok, net, fs, clock, photo_path, state, stock_entries,
                        publish_text, pkgdirs, evidence, copies, reports>>
    ELSE
      LET path == photo_path[1]
          hashed == IsNone(state.hash)
          timed == IsNone(state.world_time)
          wt == fetch_world_time(net.time, clock)
          urls == collect_publish_urls(publish_text)
          st == [state EXCEPT
                   !.hash = IF hashed THEN Some(sha256_file(fs[path])) ELSE @,
                   !.world_time = IF timed THEN Some(wt.value) ELSE @,
                   !.publish_urls = urls,
                   !.created_at = Some(clock)]
          pkg == PackageDir(clock + d)
          dst == CopyDst(path, pkg)
          copy_ok == CopySucceeds(path, disk_ok)
          copied == IF copy_ok THEN Some(dst) ELSE None
          files == IF copy_ok THEN WithCopy(copies, dst, fs[path]) ELSE copies
          meta == Meta(path, copied, st)
          hc == hash_check(copied, files, meta.sha256)
          pc == publish_checks(meta.publish_urls, net.page, clock + d)
          verification == [hash_check |-> hc.hc, publish_checks |-> pc.checks]
          full == [k \in DOMAIN meta \cup {"verification"} |->
                     IF k = "verification" THEN verification ELSE meta[k]]
      IN  /\ clock + d + 1 <= MaxClock
          /\ state' = st
          /\ clock' = clock + d + 1
          /\ pkgdirs' = pkgdirs \cup {pkg}
          /\ copies' = files
          /\ evidence' = (pkg :> full) @@ evidence
          /\ reports' = reports \cup {pkg}
          /\ last_op' = Ended("generate_report", "ok")
          /\ io_log' = (IF hashed THEN << <<"sha256_file", "original", path>> >> ELSE <<>>)
                       \o (IF timed THEN wt.reqs ELSE <<>>)
                       \o << <<"makedirs", pkg>>, <<"copy2", path, copied>> >>
                       \o hc.reqs \o pc.reqs
                       \o << <<"write", pkg, "evidence.json">>,
                             <<"write", pkg, "report.html">>,
                             <<"write", pkg, "report.md">> >>
          /\ UNCHANGED <<requests_ok, net, fs, photo_path, stock_entries, publish_text>>

(***************************************************************************)
(* main: the command-line fallback, taken when Tk cannot be initialised    *)
(***************************************************************************)
\* argv: the arguments after the script name; disk_ok: whether the copy can
\* be written; d: the ticks between the two readings of the clock
main(argv, disk_ok, d) ==
    IF argv = <<>>
    THEN /\ last_op' = Ended("main", "usage")
         /\ io_log' = <<>>
         /\ UNCHANGED <<requests_ok, net, fs, clock, photo_path, state, stock_entries,
                        publish_text, pkgdirs, evidence, copies, reports>>
    ELSE IF fs[argv[1]] = Unreadable
    THEN \* a missing file: message and return; a file that cannot be opened:
         \* sha256_file raises out of main
         /\ \/ last_op' = Ended("main", "not_found") /\ io_log' = <<>>
            \/ /\ last_op' = Ended("main", "exception")
               /\ io_log' = << <<"sha256_file", "original", argv[1]>> >>
         /\ UNCHANGED <<requests_ok, net, fs, clock, photo_path, state, stock_entries,
                        publish_text, pkgdirs, evidence, copies, reports>>
    ELSE
      LET photo == argv[1]
          h == sha256_file(fs[photo])
          exif == read_exif(fs[photo])
          world == fetch_world_time(net.time, clock)
          pkg == PackageDir(clock + d)
          dst == CopyDst(photo, pkg)
          copy_ok == CopySucceeds(photo, disk_ok)
          copied == IF copy_ok THEN Some(dst) ELSE None
          meta == [photo_original_path |-> photo,
                   photo_copied_path |-> copied,
                   sha256 |-> Some(h),
                   exif |-> Some(exif),
                   world_time |-> Some(world.value),
                   stocks |-> <<>>,
                   stock |-> None,
                   publish_urls |-> <<>>,
                   created_at |-> Some(clock),
                   app |-> "APP_TITLE",
                   version |-> "1.0.0"]
      IN  /\ clock + d + 1 <= MaxClock
          /\ clock' = clock + d + 1
          /\ pkgdirs' = pkgdirs \cup {pkg}
          /\ copies' = IF copy_ok THEN WithCopy(copies, dst, fs[photo]) ELSE copies
          /\ evidence' = (pkg :> meta) @@ evidence
          /\ reports' = reports \cup {pkg}
          /\ last_op' = Ended("main", "ok")
          /\ io_log' = << <<"sha256_file", "original", photo>>, <<"read_exif", photo>> >>
                       \o world.reqs
                       \o << <<"makedirs", pkg>>, <<"copy2", photo, copied>>,
                             <<"write", pkg, "evidence.json">>,
                             <<"write", pkg, "report.html">> >>
          /\ UNCHANGED <<requests_ok, net, fs, photo_path, state, stock_entries, publish_text>>

(***************************************************************************)
(* The two fetch functions called by themselves: what each returns         *)
(***************************************************************************)
Returned(fn, args, value) == [op |-> fn, end |-> "return", args |-> args, value |-> value]

call_fetch_world_time ==
    /\ LET r == fetch_world_time(net.time, clock)
       IN  /\ last_op' = Returned("fetch_world_time", <<>>, r.value)
           /\ io_log' = r.reqs
    /\ UNCHANGED <<requests_ok, net, fs, clock, photo_path, state, stock_entries,
                   publish_text, pkgdirs, evidence, copies, reports>>

call_fetch_stock_quote(symbol) ==
    /\ LET r == fetch_stock_quote(symbol, net.quote)
       IN  /\ last_op' = Returned("fetch_stock_quote", <<symbol>>, r.value)
           /\ io_log' = r.reqs
    /\ UNCHANGED <<requests_ok, net, fs, clock, photo_path, state, stock_entries,
                   publish_text, pkgdirs, evidence, copies, reports>>

call_safe_filename(name) ==
    /\ last_op' = Returned("safe_filename", <<name>>, safe_filename(name))
    /\ io_log' = <<>>
    /\ UNCHANGED <<requests_ok, net, fs, clock, photo_path, state, stock_entries,
                   publish_text, pkgdirs, evidence, copies, reports>>

(***************************************************************************)
(* The environment: the operator edits the inputs, files change on disk,   *)
(* time passes.                                                            *)
(***************************************************************************)
\* the file at path is rewritten, removed or made unreadable
FileChange(path, content) ==
    /\ fs[path] # content
    /\ fs' = [fs EXCEPT ![path] = content]
    /\ UNCHANGED <<requests_ok, net, clock, photo_path, state, stock_entries,
                   publish_text, pkgdirs, evidence, copies, reports, last_op, io_log>>

\* the operator retypes the publish-URL box
EditPublish(text) ==
    /\ publish_text # text
    /\ publish_text' = text
    /\ UNCHANGED <<requests_ok, net, fs, clock, photo_path, state, stock_entries,
                   pkgdirs, evidence, copies, reports, last_op, io_log>>

\* the operator sets the number of entries and retypes the symbols
EditEntries(entries) ==
    /\ stock_entries # entries
    /\ stock_entries' = entries
    /\ UNCHANGED <<requests_ok, net, fs, clock, photo_path, state, publish_text,
                   pkgdirs, evidence, copies, reports, last_op, io_log>>

Tick ==
    /\ clock < MaxClock
    /\ clock' = clock + 1
    /\ UNCHANGED <<requests_ok, net, fs, photo_path, state, stock_entries,
                   publish_text, pkgdirs, evidence, copies, reports, last_op, io_log>>

(***************************************************************************)
(* The inputs the model draws from                                         *)
(***************************************************************************)
PhotoA == <<"p", "/", "a", ".", "j">>
PhotoB == <<"p", "/", "b", " ", "1">>
Photos == {PhotoA, PhotoB}

\* answers of a JSON time service
JsonAnswers ==
    { [get |-> Raise("ConnectionError")],
      [get |-> [status |-> 500, body |-> "none"]],
      [get |-> [status |-> 200, body |-> "notjson"]],
      [get |-> [status |-> 200, body |-> "nofield"]],
      [get |-> [status |-> 200, body |-> "time"]] }

\* a response as the header probes read it
PageResp(st, d) == [status |-> st, date |-> d, ctype |-> Some("text/html"),
                    clen |-> None, moved |-> FALSE]

HeadAnswers == { Raise("Timeout"), PageResp(200, "now"), PageResp(200, "garbled"),
                 PageResp(200, "none"), PageResp(404, "now") }
GetAnswers == { Raise("ConnectionError"), PageResp(200, "now"), PageResp(200, "none"),
                PageResp(404, "now") }
UnusedGet == Raise("ConnectionError")

\* answers of a header-derived time source; the GET answer varies only
\* where the code issues a GET
HttpDateAnswers ==
    { [head |-> h, get |-> g] : h \in HeadAnswers, g \in GetAnswers } \
    { a \in [head : HeadAnswers, get : GetAnswers] :
        (Raised(a.head) \/ ~HeadInsufficient(a.head)) /\ a.get # UnusedGet }

\* answers of a published page
PageAnswers ==
    { a \in [head : HeadAnswers \ {PageResp(200, "garbled")}, get : GetAnswers] :
        (~Raised(a.head) /\ ~HeadInsufficient(a.head)) => a.get = UnusedGet }

TimeAnswers ==
    { <<a1, a2, a3, a4, a5>> : a1 \in JsonAnswers, a2 \in JsonAnswers,
        a3 \in HttpDateAnswers, a4 \in HttpDateAnswers, a5 \in HttpDateAnswers }

Down == [head |-> Raise("Timeout"), get |-> UnusedGet]
AllDown == << [get |-> Raise("ConnectionError")], [get |-> Raise("ConnectionError")],
              Down, Down, Down >>
FirstUp == [AllDown EXCEPT ![1] = [get |-> [status |-> 200, body |-> "time"]]]

PageAnswerUp == [head |-> PageResp(200, "now"), get |-> UnusedGet]
Urls == { <<"u">>, <<"v">> }
Lines == { <<>>, <<"u">>, <<" ", "v">> }
Texts == UNION { [1..n -> Lines] : n \in 0..MaxLines }

Symbols == { <<"a">>, <<"b">> }
EntryTexts == { <<>>, <<"a">>, <<" ", "B">> }
QuoteAnswers == { Raise("Timeout"), [status |-> 404, lines |-> 0, close |-> "none"],
                  [status |-> 200, lines |-> 1, close |-> "none"],
                  [status |-> 200, lines |-> 2, close |-> "101.5"] }

QuotesDown == [s \in Symbols |-> Raise("Timeout")]
PagesDown == [u \in Urls |-> [head |-> Raise("Timeout"), get |-> UnusedGet]]

(***************************************************************************)
(* Specifications                                                          *)
(***************************************************************************)
\* update_stock_inputs fills every entry with a default symbol
DefaultEntries == [i \in 1..NumEntries |-> IF i = 1 THEN <<"A">> ELSE <<"B">>]
Entries == UNION { [1..n -> EntryTexts] : n \in 0..NumEntries }

\* the application after construction, with nothing on disk yet
InitApp ==
    /\ photo_path = None
    /\ state = InitialState
    /\ pkgdirs = {}
    /\ evidence = EmptyFn
    /\ copies = EmptyFn
    /\ reports = {}
    /\ last_op = Ended("__init__", "ok")
    /\ io_log = <<>>

\* The time oracle alone, over every combination of answers of its sources.
InitOracle ==
    /\ InitApp
    /\ \/ requests_ok = TRUE /\ \E ta \in TimeAnswers :
              net = [time |-> ta, quote |-> QuotesDown, page |-> PagesDown]
       \/ requests_ok = FALSE
              /\ net = [time |-> AllDown, quote |-> QuotesDown, page |-> PagesDown]
    /\ clock = 0
    /\ fs = [p \in Photos |-> Unreadable]
    /\ stock_entries = DefaultEntries
    /\ publish_text = <<>>

NextOracle == do_time

SpecOracle == InitOracle /\ [][NextOracle]_vars

\* The assembler with its files: photos chosen, hashed, changed on disk,
\* packaged, while time passes.
Init ==
    /\ InitApp
    /\ requests_ok = TRUE
    /\ net = [time |-> AllDown, quote |-> QuotesDown, page |-> PagesDown]
    /\ clock = 0
    /\ fs \in [Photos -> Contents \cup {Unreadable}]
    /\ stock_entries = DefaultEntries
    /\ publish_text = <<>>

Next ==
    \/ \E path \in Photos \cup {<<>>} : choose_photo(path)
    \/ do_hash
    \/ \E disk_ok \in BOOLEAN, d \in 0..1 : generate_report(disk_ok, d)
    \/ \E path \in Photos, content \in Contents \cup {Unreadable} : FileChange(path, content)
    \/ Tick

Spec == Init /\ [][Next]_vars

\* The publish verifier: one package per behaviour, over every text of the
\* publish-URL box and every combination of answers of the pages.
InitPublish ==
    /\ InitApp
    /\ clock = MaxClock - 1
    /\ requests_ok \in BOOLEAN
    /\ \E pa \in [Urls -> PageAnswers] :
          net = [time |-> FirstUp, quote |-> QuotesDown, page |-> pa]
    /\ fs = [p \in Photos |-> <<1, 2>>]
    /\ stock_entries = DefaultEntries
    /\ publish_text = <<>>

NextPublish ==
    \/ choose_photo(PhotoA)
    \/ \E text \in Texts : EditPublish(text)
    \/ \E d \in 0..1 : generate_report(TRUE, d)

SpecPublish == InitPublish /\ [][NextPublish]_vars

\* The publish checks with less repetition: the answers of the pages vary
\* only where the HTTP library is there to ask for them; one page gives
\* every answer, the other one answers or fails.
InitChecks ==
    /\ InitApp
    /\ clock = MaxClock - 1
    /\ \/ /\ requests_ok = TRUE
          /\ \E pu \in PageAnswers, pv \in {PageAnswerUp, Down} :
                net = [time |-> FirstUp, quote |-> QuotesDown,
                       page |-> [u \in Urls |-> IF u = <<"u">> THEN pu ELSE pv]]
       \/ /\ requests_ok = FALSE
          /\ net = [time |-> FirstUp, quote |-> QuotesDown, page |-> PagesDown]
    /\ fs = [p \in Photos |-> <<1, 2>>]
    /\ stock_entries = DefaultEntries
    /\ publish_text = <<>>

SpecChecks == InitChecks /\ [][NextPublish]_vars

\* The quotes: the operator's entries, do_stocks and clear_stocks, then one
\* package, over every combination of answers of the quote endpoint.
InitStocks ==
    /\ InitApp
    /\ clock = MaxClock - 1
    /\ requests_ok \in BOOLEAN
    /\ \E qa \in [Symbols -> QuoteAnswers] :
          net = [time |-> FirstUp, quote |-> qa, page |-> PagesDown]
    /\ fs = [p \in Photos |-> <<1, 2>>]
    /\ stock_entries = DefaultEntries
    /\ publish_text = <<>>

NextStocks ==
    \/ choose_photo(PhotoA)
    \/ \E entries \in Entries : EditEntries(entries)
    \/ do_stocks
    \/ clear_stocks
    \/ do_exif
    \/ do_time
    \/ \E d \in 0..1 : generate_report(TRUE, d)

SpecStocks == InitStocks /\ [][NextStocks]_vars

\* The quotes alone: the operator's entries, do_stocks and clear_stocks,
\* over every combination of answers of the quote endpoint.
NextQuotes ==
    \/ \E entries \in Entries : EditEntries(entries)
    \/ do_stocks
    \/ clear_stocks

SpecQuotes == InitStocks /\ [][NextQuotes]_vars

\* The command-line fallback: one package per launch, the packages of
\* earlier launches staying on disk.
Argvs == { <<>> } \cup { <<p>> : p \in Photos }

InitCli ==
    /\ InitApp
    /\ requests_ok \in BOOLEAN
    /\ \E ta \in {AllDown, FirstUp} :
          net = [time |-> ta, quote |-> QuotesDown, page |-> PagesDown]
    /\ clock = 0
    /\ fs \in [Photos -> Contents \cup {Unreadable}]
    /\ stock_entries = DefaultEntries
    /\ publish_text = <<>>

NextCli ==
    \/ \E argv \in Argvs, disk_ok \in BOOLEAN, d \in 0..1 : main(argv, disk_ok, d)
    \/ Tick

SpecCli == InitCli /\ [][NextCli]_vars

\* The probes of one run: the header-derived time source and the published
\* pages, each over every answer of its HEAD and its GET, with and without
\* the HTTP library.
PagesUp == [u \in Urls |-> [head |-> PageResp(200, "now"), get |-> UnusedGet]]

InitProbe ==
    /\ InitApp
    /\ clock = MaxClock - 1
    /\ \/ /\ requests_ok = TRUE
          /\ \E a3 \in HttpDateAnswers :
                net = [time |-> [AllDown EXCEPT ![3] = a3], quote |-> QuotesDown,
                       page |-> PagesUp]
       \/ /\ requests_ok = TRUE
          /\ \E pu \in PageAnswers :
                net = [time |-> AllDown, quote |-> QuotesDown,
                       page |-> [PagesUp EXCEPT ![<<"u">>] = pu]]
       \/ /\ requests_ok = FALSE
          /\ net = [time |-> AllDown, quote |-> QuotesDown, page |-> PagesUp]
    /\ fs = [p \in Photos |-> <<1, 2>>]
    /\ stock_entries = DefaultEntries
    /\ publish_text = <<>>

NextProbe ==
    \/ choose_photo(PhotoA)
    \/ \E text \in Texts : EditPublish(text)
    \/ \E disk_ok \in BOOLEAN, d \in 0..1 : generate_report(disk_ok, d)

SpecProbe == InitProbe /\ [][NextProbe]_vars

\* The two fetch functions by themselves, over every combination of
\* answers of the time sources and of the quote endpoint.
SymbolTexts == EntryTexts \cup { <<" ">> }

InitFetch ==
    /\ InitApp
    /\ \/ /\ requests_ok = TRUE
          /\ \E ta \in TimeAnswers :
                net = [time |-> ta, quote |-> QuotesDown, page |-> PagesDown]
       \/ /\ requests_ok = TRUE
          /\ \E qa \in [Symbols -> QuoteAnswers] :
                net = [time |-> AllDown, quote |-> qa, page |-> PagesDown]
       \/ /\ requests_ok = FALSE
          /\ net = [time |-> AllDown, quote |-> QuotesDown, page |-> PagesDown]
    /\ clock = 0
    /\ fs = [p \in Photos |-> Unreadable]
    /\ stock_entries = DefaultEntries
    /\ publish_text = <<>>

NextFetch ==
    \/ call_fetch_world_time
    \/ \E symbol \in SymbolTexts : call_fetch_stock_quote(symbol)

SpecFetch == InitFetch /\ [][NextFetch]_vars

\* safe_filename by itself, over every name of up to MaxName characters: a
\* letter, the three punctuation marks it keeps, a blank and a separator.
NameChars == {"a", "-", "_", ".", " ", "/"}
Names == UNION { [1..n -> NameChars] : n \in 0..MaxName }

InitNames ==
    /\ InitApp
    /\ requests_ok = TRUE
    /\ net = [time |-> AllDown, quote |-> QuotesDown, page |-> PagesDown]
    /\ clock = 0
    /\ fs = [p \in Photos |-> Unreadable]
    /\ stock_entries = DefaultEntries
    /\ publish_text = <<>>

NextNames == \E name \in Names : call_safe_filename(name)

SpecNames == InitNames /\ [][NextNames]_vars

(***************************************************************************)
(* Claims about the time oracle (SpecOracle)                               *)
(***************************************************************************)
\* what the contract calls a structurally valid answer of a source: a JSON
\* service answers 2xx with the time field; a header probe obtains a Date
\* header, from HEAD or from the GET it falls back to
Answers(src, ans) ==
    IF src.kind = "http_date"
    THEN /\ ~Raised(ans.head)
         /\ IF HeadInsufficient(ans.head)
            THEN ~Raised(ans.get) /\ ans.get.date # "none"
            ELSE TRUE
    ELSE ~Raised(ans.get) /\ ans.get.status < 400 /\ ans.get.body = "time"

AnsweringSources == { j \in 1..Len(sources) : Answers(sources[j], net.time[j]) }
FirstAnswering == CHOOSE j \in AnsweringSources : \A i \in AnsweringSources : j <= i

\* the chain position of the source a logged request went to
PositionOf(url) == CHOOSE j \in 1..Len(sources) : sources[j].url = url

\* the requests of the last handler went to the sources 1..k, every one of
\* them, in chain order
ContactedExactly(k) ==
    /\ \A i \in 1..Len(io_log) : PositionOf(io_log[i][2]) <= k
    /\ \A j \in 1..k : \E i \in 1..Len(io_log) : PositionOf(io_log[i][2]) = j
    /\ \A i \in 1..Len(io_log) : \A i2 \in i..Len(io_log) :
          PositionOf(io_log[i][2]) <= PositionOf(io_log[i2][2])

TimeFetched == last_op.op = "do_time" /\ requests_ok

\* C1: the sources are tried in chain order, source k only after every source
\* before it failed; the result comes from the first source that answers and
\* its source field names that source; no later source is contacted.
C1_FirstSuccessInOrder ==
    TimeFetched =>
        LET wt == state.world_time[1]
        IN  IF AnsweringSources = {}
            THEN "error" \in DOMAIN wt /\ ContactedExactly(Len(sources))
            ELSE /\ "error" \notin DOMAIN wt
                 /\ wt.source[1] = sources[FirstAnswering].url
                 /\ ContactedExactly(FirstAnswering)

\* C1 witness: source 1 failed, source 2 answered, sources 3..5 not contacted
C1_Witness ==
    /\ TimeFetched
    /\ ~Answers(sources[1], net.time[1])
    /\ "source" \in DOMAIN state.world_time[1]
    /\ state.world_time[1].source = <<sources[2].url>>
    /\ Len(io_log) = 2

\* C2: when every source fails, details holds one entry per source, in chain
\* order, whether the source raised or answered in an unexpected shape.
C2_OneDetailPerSource ==
    (TimeFetched /\ AnsweringSources = {}) =>
        LET wt == state.world_time[1]
        IN  /\ "details" \in DOMAIN wt
            /\ Len(wt.details) = Len(sources)
            /\ \A k \in 1..Len(sources) : wt.details[k][1] = sources[k].tag

(***************************************************************************)
(* Claims about the assembler and its files (Spec)                         *)
(***************************************************************************)
\* the package directories whose evidence.json a step wrote
Written == { d \in DOMAIN evidence' : d \notin DOMAIN evidence \/ evidence'[d] # evidence[d] }

\* C3: when the selected source file cannot be read at the time
\* generate_report runs, no package directory is created and no
\* evidence.json is written.
C3_UnreadableNoPackage ==
    [][ (~IsNone(photo_path) /\ fs[photo_path[1]] = Unreadable)
            => (pkgdirs' = pkgdirs /\ evidence' = evidence) ]_vars

\* C4: the sha256 of a record is the digest of the file its
\* photo_original_path names, as that file is when the record is made.
C4_HashOfRecordedFile ==
    [][ \A d \in Written :
            LET rec == evidence'[d]
            IN  /\ fs[rec.photo_original_path] # Unreadable
                /\ rec.sha256 = Some(sha256_file(fs[rec.photo_original_path])) ]_vars

\* the records whose copied file exists in its package directory
WithCopyPresent ==
    { d \in DOMAIN evidence :
        /\ ~IsNone(evidence[d].photo_copied_path)
        /\ isfile(copies, evidence[d].photo_copied_path[1]) }

CopyOf(d) == LET dst == evidence[d].photo_copied_path[1] IN copies[dst.dir][dst.name]

\* C5: when the copied file exists, the verification holds the digest of the
\* copy, the record's sha256 as the expected value, and match exactly when
\* the two are equal; the record's sha256 is not replaced on a mismatch.
C5_RecomputeAndCompare ==
    \A d \in WithCopyPresent :
        LET rec == evidence[d]
            hc == rec.verification.hash_check
        IN  /\ DOMAIN hc = {"recomputed_sha256", "expected_sha256", "match"}
            /\ hc.recomputed_sha256 = sha256_file(CopyOf(d))
            /\ hc.expected_sha256 = rec.sha256
            /\ hc.match = (Some(hc.recomputed_sha256) = hc.expected_sha256)
            /\ (CopyOf(d) = fs[rec.photo_original_path]
                  /\ rec.sha256 = Some(sha256_file(fs[rec.photo_original_path]))
                  => hc.match)

\* C5 witness: one package whose copy matches, one whose copy differs from
\* the hashed content in one byte and is recorded as a mismatch with the
\* expected hash kept
C5_Witness ==
    \E d1 \in WithCopyPresent, d2 \in WithCopyPresent :
        /\ evidence[d1].verification.hash_check.match
        /\ ~evidence[d2].verification.hash_check.match
        /\ evidence[d2].sha256 = Some(sha256_file(<<1, 2>>))
        /\ CopyOf(d2) = <<1, 3>>

\* the last handler was a generate_report whose copy failed
CopyFailed ==
    /\ last_op = Ended("generate_report", "ok")
    /\ \E i \in 1..Len(io_log) : io_log[i][1] = "copy2" /\ IsNone(io_log[i][3])

\* the package directory the last generate_report allocated
LastPackage == LET i == CHOOSE i \in 1..Len(io_log) : io_log[i][1] = "makedirs"
               IN  io_log[i][2]

\* C6: when the copy fails a package is persisted all the same, with a null
\* photo_copied_path and the copy-missing error object as hash_check, and
\* no attempt is made to hash the copy.
C6_CopyFailureRecorded ==
    /\ CopyFailed =>
          /\ LastPackage \in DOMAIN evidence
          /\ IsNone(evidence[LastPackage].photo_copied_path)
          /\ \A i \in 1..Len(io_log) :
                ~(io_log[i][1] = "sha256_file" /\ io_log[i][2] = "copy")
          /\ \E i \in 1..Len(io_log) :
                io_log[i] = <<"write", LastPackage, "evidence.json">>
    /\ \A d \in DOMAIN evidence :
          IsNone(evidence[d].photo_copied_path) =>
              evidence[d].verification.hash_check = [error |-> "copy_missing"]

\* C6 witness: a copy failed although the source file is readable
C6_Witness ==
    /\ CopyFailed
    /\ fs[photo_path[1]] # Unreadable
    /\ evidence[LastPackage].verification.hash_check = [error |-> "copy_missing"]

\* C7: a second run makes a package directory of its own, with a creation
\* timestamp of its own and, for the same unchanged source file, the same
\* sha256; no evidence.json already written is overwritten.
C7_RunsNeverCollide ==
    [][ \A d \in Written :
            /\ d \notin DOMAIN evidence
            /\ \A o \in DOMAIN evidence :
                  /\ evidence'[o] = evidence[o]
                  /\ evidence'[d].created_at # evidence[o].created_at
                  /\ (/\ evidence[o].photo_original_path = evidence'[d].photo_original_path
                      /\ fs[evidence'[d].photo_original_path] # Unreadable
                      /\ evidence[o].sha256
                           = Some(sha256_file(fs[evidence'[d].photo_original_path])))
                     => evidence'[d].sha256 = evidence[o].sha256 ]_vars

(***************************************************************************)
(* Claims about the publish verifier (SpecPublish)                         *)
(***************************************************************************)
\* the i-th entry of checks belongs to the i-th URL, one entry per URL
OnePerUrl(urls, checks) ==
    /\ Len(checks) = Len(urls)
    /\ \A i \in 1..Len(urls) : "url" \in DOMAIN checks[i] /\ checks[i].url = urls[i]

ProbeRaises(ans) == (Raised(ans.head) \/ HeadInsufficient(ans.head)) /\ Raised(ans.get)
\* the response the entry is filled from
FinalResponse(ans) ==
    IF Raised(ans.head) \/ HeadInsufficient(ans.head) THEN ans.get ELSE ans.head

\* C9: an exception while probing one URL ends up in that URL's own error
\* field; every other URL is still probed and its entry is what its own
\* page answered.
C9_ProbeFailuresIsolated ==
    \A d \in DOMAIN evidence :
        LET urls == evidence[d].publish_urls
            checks == evidence[d].verification.publish_checks
        IN  requests_ok =>
              /\ Len(checks) = Len(urls)
              /\ \A i \in 1..Len(urls) :
                    LET ans == net.page[urls[i]]
                    IN  IF ProbeRaises(ans)
                        THEN checks[i] = [url |-> urls[i], error |-> ans.get.exc]
                        ELSE /\ "error" \notin DOMAIN checks[i]
                             /\ checks[i].url = urls[i]
                             /\ checks[i].status_code = Some(FinalResponse(ans).status)
                             /\ IsNone(checks[i].http_date) = (FinalResponse(ans).date = "none")

\* C9 witness: the first URL's probe raised, the second URL's entry carries
\* its status and Date
C9_Witness ==
    \E d \in DOMAIN evidence :
        LET checks == evidence[d].verification.publish_checks
        IN  /\ requests_ok
            /\ Len(checks) = 2
            /\ "error" \in DOMAIN checks[1]
            /\ "error" \notin DOMAIN checks[2]
            /\ checks[2].status_code = Some(200)
            /\ ~IsNone(checks[2].http_date)

(***************************************************************************)
(* Claims about the quotes (SpecStocks)                                    *)
(***************************************************************************)
\* the symbols do_stocks requests: the non-blank entries, stripped
Requested == { i \in 1..Len(stock_entries) : strip(stock_entries[i]) # <<>> }

\* C10: a record made right after do_stocks holds, for every requested
\* symbol, an entry that carries the quote or the reason it failed.
C10_EverySymbolItemized ==
    [][ (last_op = Ended("do_stocks", "ok"))
          => \A d \in Written : \A i \in Requested :
                \E j \in 1..Len(evidence'[d].stocks) :
                    evidence'[d].stocks[j].symbol = upper(strip(stock_entries[i])) ]_vars

\* the symbols of the non-blank entries, stripped, in entry order
RECURSIVE RequestedSymbols(_)
RequestedSymbols(entries) ==
    IF entries = <<>> THEN <<>>
    ELSE (IF strip(Head(entries)) # <<>> THEN <<strip(Head(entries))>> ELSE <<>>)
         \o RequestedSymbols(Tail(entries))

\* the endpoint answers a quote for the symbol: no exception, no error
\* status, a header line and a line of values
QuoteGood(symbol) ==
    /\ requests_ok
    /\ LET r == net.quote[lower(symbol)]
       IN  ~Raised(r) /\ r.status < 400 /\ r.lines >= 2
QuoteBad(symbol) == ~QuoteGood(symbol)

IsGet(e) == e[1] = "GET"
IsFailureLog(e) == e[1] = "log_failed"

\* C11: do_stocks probes every requested symbol, in entry order, whatever
\* the other symbols answered; it keeps every quote that succeeded, in
\* order, and logs one failure for every symbol that failed.
C11_SymbolsProbedIndependently ==
    [][ (last_op' = Ended("do_stocks", "ok") /\ do_stocks) =>
          LET req == RequestedSymbols(stock_entries)
              good == SelectSeq(req, QuoteGood)
              bad == SelectSeq(req, QuoteBad)
              gets == SelectSeq(io_log', IsGet)
              logged == SelectSeq(io_log', IsFailureLog)
          IN  /\ requests_ok =>
                    gets = [i \in 1..Len(req) |-> <<"GET", StooqUrl(lower(req[i]))>>]
              /\ Len(state'.stocks) = Len(good)
              /\ \A i \in 1..Len(good) :
                    /\ state'.stocks[i].symbol = upper(good[i])
                    /\ "error" \notin DOMAIN state'.stocks[i]
              /\ IF bad = <<>> THEN logged = <<>>
                 ELSE /\ Len(logged) = 1
                      /\ Len(logged[1][2]) = Len(bad)
                      /\ \A i \in 1..Len(bad) : logged[1][2][i][1] = bad[i] ]_vars

\* C11 witness: of two requested symbols the first failed with a malformed
\* response and the second, probed after it, gave the one quote that is kept
C11_Witness ==
    /\ requests_ok
    /\ last_op = Ended("do_stocks", "ok")
    /\ Len(io_log) = 3
    /\ io_log[1][1] = "GET" /\ io_log[2][1] = "GET" /\ io_log[3][1] = "log_failed"
    /\ io_log[3][2] = << << <<"A">>, ": ", <<"malformed_response">> >> >>
    /\ Len(state.stocks) = 1
    /\ state.stocks[1].symbol = <<"B">>


(***************************************************************************)
(* Further claims about the assembler (Spec)                               *)
(***************************************************************************)
\* the position of the directory allocation in the log of a run
MakedirsAt(log) == CHOOSE i \in 1..Len(log) : log[i][1] = "makedirs"

\* the requests a run sent before it allocated its directory: those of the
\* time acquisition
TimeRequestsOf(log) ==
    { i \in 1..Len(log) : i < MakedirsAt(log) /\ log[i][1] \in {"GET", "HEAD"} }

\* C12: every run of generate_report that writes a record acquires the time
\* during that run: with the HTTP library present it contacts the time
\* sources before it allocates its directory, whatever earlier handlers
\* obtained.
C12_TimeAcquiredEachRun ==
    [][ \A d \in Written : requests_ok => TimeRequestsOf(io_log') # {} ]_vars

(***************************************************************************)
(* Claims about the command-line fallback (SpecCli)                        *)
(***************************************************************************)
\* C13: every evidence.json holds the verification sub-record, whose
\* hash_check is the recomputed hash, the expected hash and the match, or an
\* explicit error.
C13_VerificationAlwaysPresent ==
    \A d \in DOMAIN evidence :
        /\ "verification" \in DOMAIN evidence[d]
        /\ "hash_check" \in DOMAIN evidence[d].verification
        /\ LET hc == evidence[d].verification.hash_check
           IN  \/ DOMAIN hc = {"recomputed_sha256", "expected_sha256", "match"}
               \/ "error" \in DOMAIN hc

(***************************************************************************)
(* Further claims about the publish verifier (SpecPublish)                 *)
(***************************************************************************)
PublishCheckKeys ==
    {"url", "status_code", "final_url", "http_date", "content_type", "content_length"}

\* C14: every entry of publish_checks in a record carries the six keys url,
\* status_code, final_url, http_date, content_type and content_length,
\* whether its probe succeeded or ended in an error.
C14_PublishCheckComplete ==
    \A d \in DOMAIN evidence :
        LET checks == evidence[d].verification.publish_checks
        IN  \A i \in 1..Len(checks) : PublishCheckKeys \subseteq DOMAIN checks[i]

(***************************************************************************)
(* Claims about the steps of one run (SpecProbe)                           *)
(***************************************************************************)
\* a step of generate_report
RunStep ==
    /\ last_op'.op = "generate_report"
    /\ \E disk_ok \in BOOLEAN, d \in 0..1 : generate_report(disk_ok, d)

\* the log holds the write of an evidence.json
RecordWritten(log) ==
    \E i \in 1..Len(log) : log[i][1] = "write" /\ log[i][3] = "evidence.json"

\* C15: a run whose source file is hashed (now or by an earlier do_hash)
\* goes on to write evidence.json, whatever the time sources answer,
\* whether or not the copy succeeds and whatever each page answers.
C15_NothingFatalAfterHash ==
    [][ (/\ RunStep
         /\ ~IsNone(photo_path)
         /\ (~IsNone(state.hash) \/ fs[photo_path[1]] # Unreadable))
        => /\ last_op' = Ended("generate_report", "ok")
           /\ Written # {}
           /\ RecordWritten(io_log') ]_vars

\* C15 witness: a record written by a run in which every time source
\* failed, the copy failed and the probe of a page raised
C15_Witness ==
    /\ last_op = Ended("generate_report", "ok")
    /\ RecordWritten(io_log)
    /\ LET rec == evidence[LastPackage]
       IN  /\ "error" \in DOMAIN rec.world_time[1]
           /\ IsNone(rec.photo_copied_path)
           /\ "error" \in DOMAIN rec.verification.hash_check
           /\ \E i \in 1..Len(rec.verification.publish_checks) :
                 /\ "url" \in DOMAIN rec.verification.publish_checks[i]
                 /\ "error" \in DOMAIN rec.verification.publish_checks[i]

\* the HTTP requests a run sent after it allocated its directory: those of
\* the publish verifier
ProbeRequestsOf(log) ==
    { i \in 1..Len(log) : i > MakedirsAt(log) /\ log[i][1] \in {"GET", "HEAD"} }

\* C16: a run without publish URLs records an empty publish_checks, with or
\* without the HTTP library, and its publish verifier sends no request.
C16_NoUrlsNoChecks ==
    last_op = Ended("generate_report", "ok") =>
        LET rec == evidence[LastPackage]
        IN  rec.publish_urls = <<>> =>
              /\ rec.verification.publish_checks = <<>>
              /\ ProbeRequestsOf(io_log) = {}

\* C16 witness: without the HTTP library, a run over a box of blank lines
C16_Witness ==
    /\ ~requests_ok
    /\ last_op = Ended("generate_report", "ok")
    /\ publish_text = << <<>>, <<>> >>
    /\ evidence[LastPackage].publish_urls = <<>>
    /\ evidence[LastPackage].verification.publish_checks = <<>>

(***************************************************************************)
(* Claims about the fetch functions (SpecFetch)                            *)
(***************************************************************************)
\* the quote endpoint answers the symbol with a body of fewer than two lines
ShortAnswer(sym) ==
    /\ sym \in DOMAIN net.quote
    /\ ~Raised(net.quote[sym])
    /\ net.quote[sym].status < 400
    /\ net.quote[sym].lines < 2

\* C17: fetch_world_time and fetch_stock_quote return to their caller in
\* every case, with a result that holds an error or the data and never
\* both; a body of fewer than two lines gives the malformed-response error,
\* an empty symbol gives an error without a request.
C17_FetchReturnsErrorOrData ==
    /\ last_op.op = "fetch_world_time" =>
          /\ last_op.end = "return"
          /\ ("error" \in DOMAIN last_op.value) # ("utc_datetime" \in DOMAIN last_op.value)
          /\ ("error" \in DOMAIN last_op.value) # ("source" \in DOMAIN last_op.value)
    /\ last_op.op = "fetch_stock_quote" =>
          LET sym == lower(strip(last_op.args[1]))
              v == last_op.value
          IN  /\ last_op.end = "return"
              /\ ("error" \in DOMAIN v) # ("close" \in DOMAIN v)
              /\ sym = <<>> => ("error" \in DOMAIN v /\ io_log = <<>>)
              /\ (requests_ok /\ sym # <<>> /\ ShortAnswer(sym)) =>
                    ("error" \in DOMAIN v /\ v.error = <<"malformed_response">>)

\* C17 witness: the quote endpoint answered one line and the function
\* returned the malformed-response error
C17_Witness ==
    /\ requests_ok
    /\ last_op.op = "fetch_stock_quote"
    /\ last_op.args = << <<"a">> >>
    /\ ShortAnswer(<<"a">>)
    /\ DOMAIN last_op.value = {"error", "source"}
    /\ io_log = << <<"GET", StooqUrl(<<"a">>)>> >>

(***************************************************************************)
(* Further claims about the time oracle (SpecOracle)                       *)
(***************************************************************************)
\* the result of the last do_time came from a header-derived source
FromHttpDate(wt) == "source" \in DOMAIN wt /\ Len(wt.source) = 2

\* C18: a success of a header-derived source carries utc_datetime in ISO
\* form and unixtime, the epoch seconds of the same instant; a Date header
\* that does not parse is not returned as a success.
C18_HeaderSuccessCarriesBoth ==
    TimeFetched =>
        LET wt == state.world_time[1]
        IN  FromHttpDate(wt) =>
              /\ wt.utc_datetime.fmt = "iso"
              /\ "unixtime" \in DOMAIN wt
              /\ wt.unixtime = Some(wt.utc_datetime.sec)

(***************************************************************************)
(* Further claims about the steps of one run (SpecProbe)                   *)
(***************************************************************************)
\* a HEAD response that is an error status or carries no Date header, and
\* one that is neither
HeadLacking(h) == ~Raised(h) /\ (h.status >= 400 \/ h.date = "none")
HeadEnough(h) == ~Raised(h) /\ h.status < 400 /\ h.date # "none"

\* the endpoints a run probes for a Date header: the header-derived time
\* sources, and the pages of the URLs it was given
IsHeaderSource(ep) == ep.kind = "http_date"
HeaderSources ==
    SelectSeq([k \in 1..Len(sources) |->
                  [url |-> sources[k].url, kind |-> sources[k].kind, ans |-> net.time[k]]],
              IsHeaderSource)
PublishEndpoints(urls) ==
    [i \in 1..Len(urls) |-> [url |-> urls[i], ans |-> net.page[urls[i]]]]

IsRequest(e) == e[1] \in {"GET", "HEAD"}
IsHeaderSourceRequest(e) ==
    IsRequest(e) /\ e[2] \notin {sources[1].url, sources[2].url}

\* reqs is made of the probes of the endpoints eps, in order: for each a
\* HEAD, followed by a GET to the same endpoint when the HEAD response is
\* lacking and by none when it is enough; a chain that may stop does not
\* have to reach every endpoint
RECURSIVE TwoStep(_, _, _)
TwoStep(reqs, eps, may_stop) ==
    IF reqs = <<>> THEN may_stop \/ eps = <<>>
    ELSE /\ eps # <<>>
         /\ Head(reqs) = <<"HEAD", Head(eps).url>>
         /\ LET h == Head(eps).ans.head
                getNext == Len(reqs) >= 2 /\ reqs[2] = <<"GET", Head(eps).url>>
            IN  /\ HeadLacking(h) => getNext
                /\ HeadEnough(h) => ~getNext
                /\ TwoStep(SubSeq(reqs, IF getNext THEN 3 ELSE 2, Len(reqs)),
                           Tail(eps), may_stop)

\* the response a probe obtained last
LastResponse(ans) == IF HeadEnough(ans.head) THEN ans.head ELSE ans.get

\* C19: every probe of a published page and of a header-derived time source
\* sends HEAD first and once; a GET to the same endpoint follows when the
\* HEAD response is an error status or has no Date header and does not
\* follow when it is a non-error response with a Date header; what is
\* recorded comes from the response obtained last.
C19_HeadThenGet ==
    (last_op = Ended("generate_report", "ok") /\ requests_ok) =>
        LET rec == evidence[LastPackage]
            mk == MakedirsAt(io_log)
            urls == rec.publish_urls
            checks == rec.verification.publish_checks
            wt == rec.world_time[1]
        IN  /\ TwoStep(SelectSeq(SubSeq(io_log, 1, mk - 1), IsHeaderSourceRequest),
                       HeaderSources, TRUE)
            /\ TwoStep(SelectSeq(SubSeq(io_log, mk + 1, Len(io_log)), IsRequest),
                       PublishEndpoints(urls), FALSE)
            /\ \A i \in 1..Len(urls) :
                  "error" \notin DOMAIN checks[i] =>
                      LET last == LastResponse(net.page[urls[i]])
                      IN  /\ checks[i].status_code = Some(last.status)
                          /\ IsNone(checks[i].http_date) = (last.date = "none")
            /\ FromHttpDate(wt) =>
                  \E k \in 1..Len(sources) :
                      /\ sources[k].url = wt.source[1]
                      /\ LET last == LastResponse(net.time[k])
                         IN  /\ last.date # "none"
                             /\ (wt.utc_datetime.fmt = "garbled") = (last.date = "garbled")

\* C19 witness: the first page answered HEAD with an error status and was
\* asked again with GET, whose status is the one recorded; the second
\* answered HEAD with a Date header and was not asked again
C19_Witness ==
    /\ requests_ok
    /\ last_op = Ended("generate_report", "ok")
    /\ evidence[LastPackage].publish_urls = << <<"u">>, <<"v">> >>
    /\ ~Raised(net.page[<<"u">>].head)
    /\ net.page[<<"u">>].head.status = 404
    /\ SelectSeq(SubSeq(io_log, MakedirsAt(io_log) + 1, Len(io_log)), IsRequest)
          = << <<"HEAD", <<"u">>>>, <<"GET", <<"u">>>>, <<"HEAD", <<"v">>>> >>
    /\ "error" \notin DOMAIN evidence[LastPackage].verification.publish_checks[1]
    /\ evidence[LastPackage].verification.publish_checks[1].status_code = Some(200)

\* the step of the run the i-th event of its log belongs to: 1 hash, 2 time
\* acquisition, 3 directory allocation, 4 copy, 5 re-verification, 6 publish
\* probes, 7 evidence.json, 8 report rendering
StepOf(log, i) ==
    LET e == log[i]
    IN  CASE e[1] = "sha256_file" -> IF e[2] = "original" THEN 1 ELSE 5
          [] e[1] \in {"GET", "HEAD"} -> IF i < MakedirsAt(log) THEN 2 ELSE 6
          [] e[1] = "makedirs" -> 3
          [] e[1] = "copy2" -> 4
          [] e[1] = "write" -> IF e[3] = "evidence.json" THEN 7 ELSE 8

EventsOf(log, step) == { i \in 1..Len(log) : StepOf(log, i) = step }

\* C20: the events of a run follow the order hash, time acquisition,
\* directory allocation, copy, re-verification, publish probes,
\* evidence.json, reports; no step is returned to, the directory is
\* allocated once, the copy attempted once and evidence.json written once,
\* the reports are rendered after evidence.json and the copy is hashed
\* after it was made.
C20_LinearRun ==
    last_op = Ended("generate_report", "ok") =>
        /\ \A i \in 1..Len(io_log) : \A j \in i..Len(io_log) :
              StepOf(io_log, i) <= StepOf(io_log, j)
        /\ Cardinality(EventsOf(io_log, 1)) <= 1
        /\ Cardinality(EventsOf(io_log, 3)) = 1
        /\ Cardinality(EventsOf(io_log, 4)) = 1
        /\ Cardinality(EventsOf(io_log, 5)) <= 1
        /\ Cardinality(EventsOf(io_log, 7)) = 1
        /\ Cardinality(EventsOf(io_log, 8)) = 2
        /\ \A i \in EventsOf(io_log, 5) : \A j \in EventsOf(io_log, 4) :
              /\ j < i
              /\ io_log[j][3] = Some(io_log[i][3])

\* C20 witness: a run that went through every one of the eight steps
C20_Witness ==
    /\ last_op = Ended("generate_report", "ok")
    /\ \A step \in 1..8 : EventsOf(io_log, step) # {}

(***************************************************************************)
(* Claims about safe_filename (SpecNames)                                  *)
(***************************************************************************)
\* the characters the claim allows in a file name
AllowedChar(c) == c \in AlnumChars \cup {"-", "_", "."}

\* C21: the result of safe_filename holds allowed characters only; it is the
\* input's allowed characters, each as it was and in the order they had;
\* safe_filename applied to the result gives the result.
C21_SafeFilenameFilters ==
    last_op.op = "safe_filename" =>
        LET name == last_op.args[1]
            out == last_op.value
        IN  /\ \A i \in 1..Len(out) : AllowedChar(out[i])
            /\ out = SelectSeq(name, AllowedChar)
            /\ safe_filename(out) = out

\* C21 witness: a name with a leading blank, a separator between two
\* allowed characters, both dropped and nothing put in their place
C21_Witness ==
    /\ last_op.op = "safe_filename"
    /\ last_op.args[1] = <<" ", "/", "a">>
    /\ last_op.value = <<"a">>

(***************************************************************************)
(* Further claims about the quotes (SpecQuotes)                            *)
(***************************************************************************)
\* the quote of a symbol the endpoint answers, tagged as do_stocks tags it
QuoteOf(symbol) ==
    [symbol |-> upper(symbol),
     close |-> net.quote[lower(symbol)].close,
     source |-> StooqUrl(lower(symbol))]

\* the quotes of the entries: one for each non-blank entry whose symbol the
\* endpoint answers, in entry order
QuotesOf(entries) ==
    LET good == SelectSeq(RequestedSymbols(entries), QuoteGood)
    IN  [i \in 1..Len(good) |-> QuoteOf(good[i])]

\* a do_stocks step leaves in state["stocks"] the quotes of the entries as
\* they are at that step and sends one request for each non-blank entry
StocksReplaced ==
    /\ state'.stocks = QuotesOf(stock_entries)
    /\ requests_ok =>
          Len(SelectSeq(io_log', IsGet)) = Len(RequestedSymbols(stock_entries))

\* C22 as stated: after every do_stocks state["stocks"] holds the error-free
\* quotes of that do_stocks and nothing of an earlier one, one per non-blank
\* entry at most, in entry order, tagged with the upper-cased symbol; after
\* clear_stocks it is empty; blank entries cause no request.
C22_StocksOfLastFetch ==
    [][ /\ (last_op'.op = "do_stocks" /\ do_stocks) => StocksReplaced
        /\ (last_op'.op = "clear_stocks" /\ clear_stocks) => state'.stocks = <<>> ]_vars

\* C22 as amended: the same for every do_stocks that finds at least one
\* entry widget; a do_stocks that finds none warns, sends no request and
\* leaves state["stocks"] as it was.
C22_StocksOfLastFetchWithEntries ==
    [][ /\ (last_op'.op = "do_stocks" /\ do_stocks) =>
              IF stock_entries # <<>> THEN StocksReplaced
              ELSE state'.stocks = state.stocks /\ io_log' = <<>>
        /\ (last_op'.op = "clear_stocks" /\ clear_stocks) => state'.stocks = <<>> ]_vars

\* C22 witness: after the default entries were replaced by a blank entry
\* and one symbol, do_stocks sent one request and holds that one quote
C22_Witness ==
    /\ requests_ok
    /\ last_op = Ended("do_stocks", "ok")
    /\ stock_entries = << <<>>, <<" ", "B">> >>
    /\ Len(io_log) = 1
    /\ state.stocks = << QuoteOf(<<"B">>) >>

=============================================================================
